---- MODULE Spec2Model ----
(***************************************************************************)
(* Model of packages/core/src/nodes.rs: the VNode tagged union, its        *)
(* payloads (VElement, VText, VFragment, VComponent), NodeKey, Attribute   *)
(* and the memoization comparator built by VComponent::new.                *)
(*                                                                         *)
(* The bump arena is a sequence of allocations; a `&'src T` is the index   *)
(* of its allocation.  A VNode value is a record; VText is held by value   *)
(* inside the node, so its Cell lives in the node record itself.           *)
(***************************************************************************)
EXTENDS Integers, Sequences, FiniteSets, TLC

\* ---------------------------------------------------------------- bounds
MaxNodes == 2
MaxDomId == 1

\* ---------------------------------------------------------------- Option
None == <<>>
Some(x) == <<x>>

\* ---------------------------------------------------------------- inputs
KeyStrings == {"list-1", ""}
OptKeys == {None} \cup {Some(s) : s \in KeyStrings}
Texts == {"a"}
AttrNames == {"value", "checked", "selected", "id", "Value", "values"}
AttrValues == {"a", ""}
FCs == {"A", "B", "C"}
ScopeIdxs == {1}

\* the props type fixed by each render function's signature
PropsTypeOf(fc) == IF fc = "C" THEN "Opaque" ELSE "Counter"

\* the values of each props type
PropsValuesOf(ty) == IF ty = "Counter" THEN {[count |-> 1], [count |-> 2]} ELSE {[count |-> 1]}

\* P::CAN_BE_MEMOIZED of the Properties implementation
CAN_BE_MEMOIZED(ty) == ty = "Counter"

\* P's PartialEq (derived: field by field)
PropsEq(p, q) == p.count = q.count

\* RealDomNode::empty()
RealDomNode_empty == 0

RealDomNodes == 1..MaxDomId

\* ---------------------------------------------------------------- NodeKey
NodeKey(o) == [inner |-> o]

NodeKey_NONE == NodeKey(None)

NodeKey_new(key) == NodeKey(Some(key))

is_none_EmptyIsNone(k) == k = NodeKey_NONE \/ k = NodeKey(Some(""))

is_none(k) == k = NodeKey_NONE

is_some(k) == ~is_none(k)

AllKeys == {NodeKey_NONE} \cup {NodeKey_new(s) : s \in KeyStrings}

\* ---------------------------------------------------------------- Attribute
Attribute(name, value) == [name |-> name, value |-> value]

is_volatile_NoSelected(attr) == attr.name \in {"value", "checked"}

is_volatile(attr) == attr.name \in {"value", "checked", "selected"}

AttributeLists == {<<>>, <<Attribute("value", "a")>>}

\* ---------------------------------------------------------------- state
VARIABLES
    arena,      \* the Bump: sequence of allocations
    nodes,      \* the VNode values alive in the render pass
    pending,    \* a payload returned by value and not yet placed by the caller
    last,       \* the operation that ran last, with what it returned
    ghost       \* history: per node, the constructed node it is a clone of
                \* and the key argument its constructor was given

vars == <<arena, nodes, pending, last, ghost>>

NoPending == [kind |-> "none"]

\* ---------------------------------------------------------------- VText / children
VText_Mounted(text) == [tag |-> "Text", text |-> text, dom_id |-> 1]

VText(text) == [tag |-> "Text", text |-> text, dom_id |-> RealDomNode_empty]

ChildLists == {<<>>, <<VText("a"), VText("b"), VText("c")>>}

\* the function's address, `component as *const ()`; distinct functions
\* are taken to have distinct addresses
FnAddr(fc) == CASE fc = "A" -> 4096 [] fc = "B" -> 4160 [] fc = "C" -> 4224

\* a freshly constructed node enters `nodes`
PushNode(n, given) ==
    /\ nodes' = Append(nodes, n)
    /\ ghost' = [ghost EXCEPT !.origin = Append(@, Len(nodes) + 1),
                              !.given = Append(@, given)]

\* ---------------------------------------------------------------- VNode::element
VNode_element(key, tag_name, listeners, attributes, children, namespace) ==
    /\ Len(nodes) < MaxNodes
    /\ arena' = Append(arena,
                    [kind |-> "VElement", key |-> key, tag_name |-> tag_name,
                     listeners |-> listeners, attributes |-> attributes,
                     children |-> children, namespace |-> namespace,
                     dom_id |-> RealDomNode_empty])
    /\ PushNode([tag |-> "Element", ref |-> Len(arena) + 1], key)
    /\ pending' = pending
    /\ last' = [op |-> "VNode_element"]

\* ---------------------------------------------------------------- VNode::text
VNode_text_Alloc(text) ==
    /\ Len(nodes) < MaxNodes
    /\ arena' = Append(arena, [kind |-> "VText", text |-> text])
    /\ PushNode(VText(text), NodeKey_NONE)
    /\ pending' = pending
    /\ last' = [op |-> "VNode_text"]

VNode_text(text) ==
    /\ Len(nodes) < MaxNodes
    /\ PushNode(VText(text), NodeKey_NONE)
    /\ UNCHANGED <<arena, pending>>
    /\ last' = [op |-> "VNode_text"]

\* ---------------------------------------------------------------- VNode::Suspended
VNode_Suspended ==
    /\ Len(nodes) < MaxNodes
    /\ PushNode([tag |-> "Suspended"], NodeKey_NONE)
    /\ UNCHANGED <<arena, pending>>
    /\ last' = [op |-> "VNode_Suspended"]

\* ---------------------------------------------------------------- VFragment::new
VFragment_new(key, children) ==
    /\ pending = NoPending
    /\ pending' = [kind |-> "VFragment",
                   key |-> IF key # None THEN NodeKey_new(key[1]) ELSE NodeKey(None),
                   children |-> children]
    /\ ghost' = [ghost EXCEPT !.pending = key]
    /\ UNCHANGED <<arena, nodes>>
    /\ last' = [op |-> "VFragment_new"]

\* ---------------------------------------------------------------- VComponent::new
BuildsComparator_Always(ty) == TRUE

\* `if P::CAN_BE_MEMOIZED { Some(bump.alloc(closure)) } else { None }`
BuildsComparator(ty) == CAN_BE_MEMOIZED(ty)

VComponent_new(component, props, key, children) ==
    LET ty == PropsTypeOf(component)
        caller_ref == FnAddr(component)
        raw_props == Len(arena) + 1
        arena1 == Append(arena, [kind |-> "Props", ty |-> ty, val |-> props])
        memo == BuildsComparator(ty)
        arena2 == IF memo
                  THEN Append(arena1, [kind |-> "Comparator",
                                       caller_ref |-> caller_ref,
                                       props |-> raw_props])
                  ELSE arena1
    IN  /\ pending = NoPending
        /\ arena' = arena2
        /\ pending' = [kind |-> "VComponent",
                       key |-> IF key # None THEN NodeKey_new(key[1]) ELSE NodeKey(None),
                       ass_scope |-> None,
                       user_fc |-> caller_ref,
                       comparator |-> IF memo THEN Some(Len(arena2)) ELSE None,
                       raw_props |-> raw_props,
                       children |-> children,
                       caller |-> [component |-> component, raw_props |-> raw_props],
                       mounted_root |-> RealDomNode_empty]
        /\ ghost' = [ghost EXCEPT !.pending = key]
        /\ nodes' = nodes
        /\ last' = [op |-> "VComponent_new"]

\* ---------------------------------------------------------------- the caller of ::new
\* `VNode::Fragment(bump.alloc(frag))` / `VNode::Component(bump.alloc(comp))`
PlacePending ==
    /\ pending # NoPending
    /\ Len(nodes) < MaxNodes
    /\ arena' = Append(arena, pending)
    /\ nodes' = Append(nodes,
                   [tag |-> IF pending.kind = "VFragment" THEN "Fragment" ELSE "Component",
                    ref |-> Len(arena) + 1])
    /\ ghost' = [origin |-> Append(ghost.origin, Len(nodes) + 1),
                 given |-> Append(ghost.given, ghost.pending),
                 pending |-> None]
    /\ pending' = NoPending
    /\ last' = [op |-> "place"]

\* ---------------------------------------------------------------- Clone for VNode
VNode_clone_Deep(i) ==
    LET n == nodes[i] IN
    /\ Len(nodes) < MaxNodes
    /\ IF n.tag \in {"Element", "Fragment", "Component"}
       THEN /\ arena' = Append(arena, arena[n.ref])
            /\ nodes' = Append(nodes, [tag |-> n.tag, ref |-> Len(arena) + 1])
       ELSE /\ arena' = arena
            /\ nodes' = Append(nodes, n)
    /\ ghost' = [ghost EXCEPT !.origin = Append(@, ghost.origin[i]),
                              !.given = Append(@, ghost.given[i])]
    /\ pending' = pending
    /\ last' = [op |-> "clone", n |-> i]

VNode_clone(i) ==
    LET n == nodes[i]
        c == CASE n.tag = "Element"   -> [tag |-> "Element", ref |-> n.ref]
               [] n.tag = "Text"      -> [tag |-> "Text", text |-> n.text, dom_id |-> n.dom_id]
               [] n.tag = "Fragment"  -> [tag |-> "Fragment", ref |-> n.ref]
               [] n.tag = "Component" -> [tag |-> "Component", ref |-> n.ref]
               [] n.tag = "Suspended" -> [tag |-> "Suspended"]
    IN  /\ Len(nodes) < MaxNodes
        /\ nodes' = Append(nodes, c)
        /\ ghost' = [ghost EXCEPT !.origin = Append(@, ghost.origin[i]),
                                  !.given = Append(@, ghost.given[i])]
        /\ UNCHANGED <<arena, pending>>
        /\ last' = [op |-> "clone", n |-> i]

\* ---------------------------------------------------------------- VNode::key
key_KeylessFragment(n) ==
    CASE n.tag = "Text"      -> NodeKey_NONE
      [] n.tag = "Element"   -> arena[n.ref].key
      [] n.tag = "Fragment"  -> NodeKey_NONE
      [] n.tag = "Component" -> arena[n.ref].key
      [] n.tag = "Suspended" -> NodeKey_NONE

key(n) ==
    CASE n.tag = "Text"      -> NodeKey_NONE
      [] n.tag = "Element"   -> arena[n.ref].key
      [] n.tag = "Fragment"  -> arena[n.ref].key
      [] n.tag = "Component" -> arena[n.ref].key
      [] n.tag = "Suspended" -> NodeKey_NONE

CallKey(i) ==
    /\ last' = [op |-> "key", n |-> i, res |-> key(nodes[i])]
    /\ UNCHANGED <<arena, nodes, pending, ghost>>

\* ---------------------------------------------------------------- NodeKey::is_none / is_some
CallKeyPredicates(k) ==
    /\ last' = [op |-> "is_none", k |-> k, none |-> is_none(k), some |-> is_some(k)]
    /\ UNCHANGED <<arena, nodes, pending, ghost>>

\* ---------------------------------------------------------------- Attribute::is_volatile
CallIsVolatile(attr) ==
    /\ last' = [op |-> "is_volatile", attr |-> attr, res |-> is_volatile(attr)]
    /\ UNCHANGED <<arena, nodes, pending, ghost>>

\* ---------------------------------------------------------------- the comparator closure
\* closure: the allocation holding the captured (caller_ref, props);
\* other: the VComponent it is applied to.  `reads` are the erased
\* pointers of `other` it dereferences.
comparator_NoTagCheck(closure, other) ==
    [res |-> PropsEq(arena[closure.props].val, arena[other.raw_props].val),
     reads |-> {other.raw_props}]

comparator_ByAddress(closure, other) ==
    IF closure.caller_ref = other.user_fc
    THEN [res |-> closure.props = other.raw_props, reads |-> {other.raw_props}]
    ELSE [res |-> FALSE, reads |-> {}]

comparator(closure, other) ==
    IF closure.caller_ref = other.user_fc
    THEN [res |-> PropsEq(arena[closure.props].val, arena[other.raw_props].val),
          reads |-> {other.raw_props}]
    ELSE [res |-> FALSE, reads |-> {}]

CallComparator(i, j) ==
    /\ nodes[i].tag = "Component"
    /\ nodes[j].tag = "Component"
    /\ arena[nodes[i].ref].comparator # None
    /\ LET a == arena[nodes[i].ref]
           b == arena[nodes[j].ref]
           r == comparator(arena[a.comparator[1]], b)
       IN  last' = [op |-> "comparator", a |-> i, b |-> j,
                    res |-> r.res, reads |-> r.reads]
    /\ UNCHANGED <<arena, nodes, pending, ghost>>

\* ---------------------------------------------------------------- the mounting process (external)
\* `dom_id.set(id)` / `mounted_root.set(id)` through nodes[i]
SetDomId(i, id) ==
    LET n == nodes[i] IN
    /\ n.tag \in {"Element", "Text", "Component"}
    /\ CASE n.tag = "Text" ->
              /\ nodes' = [nodes EXCEPT ![i].dom_id = id]
              /\ arena' = arena
         [] n.tag = "Element" ->
              /\ arena' = [arena EXCEPT ![n.ref].dom_id = id]
              /\ nodes' = nodes
         [] n.tag = "Component" ->
              /\ arena' = [arena EXCEPT ![n.ref].mounted_root = id]
              /\ nodes' = nodes
    /\ UNCHANGED <<pending, ghost>>
    /\ last' = [op |-> "set_dom_id", n |-> i]

\* `*ass_scope.borrow_mut() = Some(idx)` through nodes[i]
SetScope(i, idx) ==
    LET n == nodes[i] IN
    /\ n.tag = "Component"
    /\ arena' = [arena EXCEPT ![n.ref].ass_scope = Some(idx)]
    /\ UNCHANGED <<nodes, pending, ghost>>
    /\ last' = [op |-> "set_scope", n |-> i]

\* the handle read through a node
ReadHandle(n) ==
    CASE n.tag = "Text"      -> n.dom_id
      [] n.tag = "Element"   -> arena[n.ref].dom_id
      [] n.tag = "Component" -> arena[n.ref].mounted_root
      [] OTHER               -> RealDomNode_empty

ReadScope(n) == IF n.tag = "Component" THEN arena[n.ref].ass_scope ELSE None

\* ---------------------------------------------------------------- specifications
Init ==
    /\ arena = <<>>
    /\ nodes = <<>>
    /\ pending = NoPending
    /\ last = [op |-> "init"]
    /\ ghost = [origin |-> <<>>, given |-> <<>>, pending |-> None]

\* the layer's own operations
Next ==
    \/ \E k \in AllKeys, at \in AttributeLists :
          VNode_element(k, "div", <<>>, at, <<>>, None)
    \/ \E t \in Texts : VNode_text(t)
    \/ VNode_Suspended
    \/ \E k \in OptKeys, ch \in ChildLists : VFragment_new(k, ch)
    \/ \E fc \in {"A", "C"}, k \in OptKeys :
          VComponent_new(fc, [count |-> 1], k, <<>>)
    \/ PlacePending
    \/ \E i \in 1..Len(nodes) : VNode_clone(i)
    \/ \E i \in 1..Len(nodes) : CallKey(i)
    \/ \E i \in 1..Len(nodes), j \in 1..Len(nodes) : CallComparator(i, j)

Spec == Init /\ [][Next]_vars

\* the value types: keys and attributes, on their own and in elements
NextValues ==
    \/ \E k \in AllKeys, at \in AttributeLists, ch \in ChildLists :
          VNode_element(k, "div", <<>>, at, ch, None)
    \/ \E i \in 1..Len(nodes) : CallKey(i)
    \/ \E k \in AllKeys : CallKeyPredicates(k)
    \/ \E n \in AttrNames, v \in AttrValues : CallIsVolatile(Attribute(n, v))

SpecValues == Init /\ [][NextValues]_vars

\* components of every render function, props value, key and children,
\* and their comparators
NextComp ==
    \/ \E fc \in FCs, k \in {None, Some("list-1")}, ch \in ChildLists :
          \E p \in PropsValuesOf(PropsTypeOf(fc)) : VComponent_new(fc, p, k, ch)
    \/ PlacePending
    \/ \E i \in 1..Len(nodes), j \in 1..Len(nodes) : CallComparator(i, j)

SpecComp == Init /\ [][NextComp]_vars

\* the layer together with the external mounting process
NextMount ==
    \/ VNode_element(NodeKey_NONE, "div", <<>>, <<>>, <<>>, None)
    \/ \E t \in Texts : VNode_text(t)
    \/ VFragment_new(None, <<>>)
    \/ \E fc \in {"A", "C"} : VComponent_new(fc, [count |-> 1], None, <<>>)
    \/ PlacePending
    \/ \E i \in 1..Len(nodes) : VNode_clone(i)
    \/ \E i \in 1..Len(nodes), id \in RealDomNodes : SetDomId(i, id)
    \/ \E i \in 1..Len(nodes), s \in ScopeIdxs : SetScope(i, s)

SpecMount == Init /\ [][NextMount]_vars

\* ================================================================ properties

Components == {i \in 1..Len(nodes) : nodes[i].tag = "Component"}

\* the render function a placed component was built from
BuiltFrom(i) == arena[nodes[i].ref].caller.component

\* C1: a comparator applied to a component built from a different render
\* function returns false, whatever the props values are, and dereferences
\* none of the other component's erased pointers.
C1_DifferentFunctionsNeverEqual ==
    (last.op = "comparator" /\ BuiltFrom(last.a) # BuiltFrom(last.b))
        => (last.res = FALSE /\ last.reads = {})

C1_Witness ==
    /\ last.op = "comparator"
    /\ BuiltFrom(last.a) = "A"
    /\ BuiltFrom(last.b) = "B"
    /\ arena[arena[nodes[last.a].ref].raw_props].val
         = arena[arena[nodes[last.b].ref].raw_props].val

\* C2: a comparator applied to a component built from the same render
\* function returns true exactly when the two props values are equal by
\* value, also when they live in distinct arena allocations.
C2_SameFunctionComparesProps ==
    (last.op = "comparator" /\ BuiltFrom(last.a) = BuiltFrom(last.b))
        => (last.res = (arena[arena[nodes[last.a].ref].raw_props].val
                          = arena[arena[nodes[last.b].ref].raw_props].val))

C2_Witness ==
    /\ last.op = "comparator"
    /\ BuiltFrom(last.a) = BuiltFrom(last.b)
    /\ arena[nodes[last.a].ref].raw_props # arena[nodes[last.b].ref].raw_props
    /\ last.res = TRUE

\* C3: every clone of a Text node reads the same physical-node handle as
\* the node it was cloned from, after any clones and handle writes.
C3_TextClonesShareHandle ==
    \A i, j \in 1..Len(nodes) :
        (nodes[i].tag = "Text" /\ ghost.origin[i] = ghost.origin[j])
            => ReadHandle(nodes[i]) = ReadHandle(nodes[j])

\* C4: every clone of an Element, Fragment or Component node refers to the
\* payload of the node it was cloned from, so handle and scope writes made
\* through one are read through all, and cloning allocates nothing.
C4_RefClonesSharePayload ==
    /\ [](\A i, j \in 1..Len(nodes) :
            (nodes[i].tag \in {"Element", "Fragment", "Component"}
                /\ ghost.origin[i] = ghost.origin[j])
              => /\ nodes[j].ref = nodes[i].ref
                 /\ ReadHandle(nodes[i]) = ReadHandle(nodes[j])
                 /\ ReadScope(nodes[i]) = ReadScope(nodes[j]))
    /\ [][last'.op = "clone" => arena' = arena]_vars

C4_Witness ==
    /\ last.op \in {"set_dom_id", "set_scope"}
    /\ \E i, j \in 1..Len(nodes) :
          /\ i # j
          /\ ghost.origin[i] = ghost.origin[j]
          /\ nodes[i].tag \in {"Element", "Component"}
          /\ ReadHandle(nodes[j]) # RealDomNode_empty

\* the key a node's constructor was given, as a NodeKey
GivenKey(i) ==
    IF nodes[i].tag = "Element" THEN ghost.given[i]
    ELSE IF ghost.given[i] = None THEN NodeKey_NONE
    ELSE NodeKey_new(ghost.given[i][1])

\* C5: key() is the sentinel for Text and Suspended and otherwise the key
\* the node's payload was constructed with.
C5_KeyIsGivenKey ==
    last.op = "key" =>
        last.res = IF nodes[last.n].tag \in {"Text", "Suspended"}
                   THEN NodeKey_NONE
                   ELSE GivenKey(last.n)

C5_Witness ==
    /\ last.op = "key"
    /\ nodes[last.n].tag = "Fragment"
    /\ Len(arena[nodes[last.n].ref].children) = 3
    /\ last.res = NodeKey_new("list-1")

CellsOf(p) ==
    CASE p.kind = "VElement"   -> {p.dom_id}
      [] p.kind = "VComponent" -> {p.mounted_root}
      [] OTHER                 -> {}

ChildCells(p) ==
    IF p.kind \in {"VElement", "VFragment", "VComponent"}
    THEN {p.children[c].dom_id : c \in 1..Len(p.children)}
    ELSE {}

ScopesOf(p) == IF p.kind = "VComponent" THEN {p.ass_scope} ELSE {}

\* C6: with the layer's own operations alone, every handle cell is empty
\* and every scope association is none.
C6_CellsStayEmpty ==
    /\ \A i \in 1..Len(nodes) : ReadHandle(nodes[i]) = RealDomNode_empty
    /\ \A r \in 1..Len(arena) :
          /\ CellsOf(arena[r]) \cup ChildCells(arena[r]) \subseteq {RealDomNode_empty}
          /\ ScopesOf(arena[r]) \subseteq {None}
    /\ CellsOf(pending) \cup ChildCells(pending) \subseteq {RealDomNode_empty}
    /\ ScopesOf(pending) \subseteq {None}

C6_Witness ==
    /\ last.op = "comparator"
    /\ \E i, j \in 1..Len(nodes) :
          /\ i # j
          /\ ghost.origin[i] = ghost.origin[j]
          /\ nodes[i].tag = "Component"

\* C7: exactly one of is_none and is_some holds of a key, and is_none holds
\* only of the sentinel.
C7_NoneXorSome ==
    last.op = "is_none" =>
        /\ last.none # last.some
        /\ last.none <=> (last.k = NodeKey(None))

C7_Witness ==
    /\ last.op = "is_none"
    /\ last.k = NodeKey(Some(""))
    /\ last.some

\* C8: is_volatile is true exactly for the names "value", "checked" and
\* "selected", whatever the attribute's value.
C8_VolatileNames ==
    last.op = "is_volatile" =>
        last.res = (last.attr.name = "value" \/ last.attr.name = "checked"
                        \/ last.attr.name = "selected")

C8_Witness ==
    /\ last.op = "is_volatile"
    /\ last.attr.name = "selected"
    /\ last.attr.value = ""

\* C9, as stated: one arena allocation per VNode::element and per
\* VFragment::new, none for Text and Suspended.
C9_Original ==
    [][/\ last'.op \in {"VNode_element", "VFragment_new"} => Len(arena') = Len(arena) + 1
       /\ last'.op \in {"VNode_text", "VNode_Suspended"} => arena' = arena]_vars

\* C9, amended: VNode::element makes exactly one arena allocation;
\* VFragment::new, VNode::text and Suspended make none.
C9_AllocationsPerConstructor ==
    [][/\ last'.op = "VNode_element" =>
             /\ Len(arena') = Len(arena) + 1
             /\ SubSeq(arena', 1, Len(arena)) = arena
       /\ last'.op \in {"VFragment_new", "VNode_text", "VNode_Suspended"} => arena' = arena]_vars

C9_Witness ==
    /\ last.op = "VNode_text"
    /\ pending.kind = "VFragment"
    /\ \E i \in 1..Len(nodes) : nodes[i].tag = "Element"

IsComparator(p) == p.kind = "Comparator"

NumComparators(a) == Cardinality({r \in 1..Len(a) : IsComparator(a[r])})

Memoizable(c) == CAN_BE_MEMOIZED(PropsTypeOf(c.caller.component))

\* C10: a component carries a comparator exactly when its props type is
\* memoizable, and VComponent::new allocates a comparator closure only then.
C10_ComparatorIffMemoizable ==
    /\ [](/\ \A r \in 1..Len(arena) :
               arena[r].kind = "VComponent" =>
                   (arena[r].comparator # None <=> Memoizable(arena[r]))
          /\ pending.kind = "VComponent" =>
                   (pending.comparator # None <=> Memoizable(pending)))
    /\ [][last'.op = "VComponent_new" =>
             /\ NumComparators(arena') =
                    NumComparators(arena) + (IF Memoizable(pending') THEN 1 ELSE 0)
             /\ Len(arena') = Len(arena) + (IF Memoizable(pending') THEN 2 ELSE 1)]_vars

C10_Witness ==
    /\ pending.kind = "VComponent"
    /\ pending.caller.component = "C"
    /\ pending.comparator = None
    /\ Len(pending.children) = 3
    /\ \E r \in 1..Len(arena) :
          arena[r].kind = "VComponent" /\ arena[r].comparator # None
====
